---- MODULE Spec2Model ----
(***************************************************************************)
(* Model of src/app.py: the rate-limited, lru_cache'd Football-Data.org    *)
(* fetch layer (rate_limited_request, football_data_get and the four       *)
(* cached fetchers) and the match normaliser                               *)
(* (parse_date, build_match_list_from_matches).                            *)
(*                                                                         *)
(* Time: `now` is the value time.time() returns.  A caller's straight-line *)
(* Python takes no time: the clock advances while every caller is idle,    *)
(* blocked in time.sleep or waiting for requests.get to answer, and while  *)
(* a running caller is held back by another running caller.                *)
(*                                                                         *)
(* Upstream bodies follow the Football-Data.org v4 schema: a 2xx body is a *)
(* JSON object, every standings entry carries `type` and `table`, every    *)
(* entry of `matches` is an object.                                        *)
(***************************************************************************)
EXTENDS Integers, Sequences, FiniteSets, TLC

VARIABLES now, LAST_REQUEST_TIME, cache, pc, frame, active, menu, budget,
          ncalls, netlog, last, memo, evicted, uselog,
          nm_matches, nm_team_id, nm_out, nm_pc

fetch_vars == <<now, LAST_REQUEST_TIME, cache, pc, frame, active, menu, budget,
                ncalls, netlog, last, memo, evicted, uselog>>
norm_vars  == <<nm_matches, nm_team_id, nm_out, nm_pc>>
vars       == <<fetch_vars, norm_vars>>

(***************************************************************************)
(* Bounds of the model.                                                    *)
(***************************************************************************)
\* fetch calls started in one run
MaxCalls == 3
\* fetch calls started in a run that fills a cache
CacheCalls == 4
\* clock ticks after process start
Horizon == 7
\* clock ticks of a run of two concurrent callers
ConcHorizon == 6
\* clock ticks of a run that fills a cache
CacheHorizon == 12
\* stands for lru_cache(maxsize=128) of teams / standings
Cap128 == 1
\* stands for lru_cache(maxsize=256) of team info / matches
Cap256 == 2
\* entries of an upstream `matches` or `standings` array
MaxEntries == 2
\* largest `limit` a caller passes explicitly
MaxLimit == 2
\* largest full-time score of a raw match
MaxGoals == 1

(***************************************************************************)
(* Program constants.                                                      *)
(***************************************************************************)
REQUEST_DELAY == 6
DEFAULT_LIMIT == 15

(***************************************************************************)
(* Python values, tagged with their type so that 57 and "57", None and 0,  *)
(* [] and {} stay distinct.                                                *)
(***************************************************************************)
NoneV == [type |-> "NoneType"]
I(n)  == [type |-> "int", v |-> n]
S(s)  == [type |-> "str", v |-> s]
D(f)  == [type |-> "dict", v |-> f]
L(q)  == [type |-> "list", v |-> q]

EmptyDict == D(<<>>)
EmptyList == L(<<>>)

\* Python truthiness: `not x`
Falsy(x) ==
    CASE x.type = "NoneType" -> TRUE
      [] x.type = "int"      -> x.v = 0
      [] x.type = "str"      -> x.v = ""
      [] x.type = "dict"     -> DOMAIN x.v = {}
      [] x.type = "list"     -> x.v = <<>>
      [] OTHER               -> FALSE

\* `k in d` for a dict d
HasKey(d, k) == k \in DOMAIN d.v

\* d.get(k, default) for a dict d
DictGet(d, k, default) == IF k \in DOMAIN d.v THEN d.v[k] ELSE default

Digit == <<"0", "1", "2", "3", "4", "5", "6", "7", "8", "9">>

RECURSIVE IntToStr(_)
IntToStr(n) ==
    IF n < 10 THEN Digit[n + 1]
    ELSE IntToStr(n \div 10) \o Digit[(n % 10) + 1]

\* str(x), also what an f-string substitutes for {x}
str(x) ==
    CASE x.type = "str"      -> x.v
      [] x.type = "int"      -> IntToStr(x.v)
      [] x.type = "NoneType" -> "None"
      [] OTHER               -> "<object>"

\* q[:n]
Prefix(q, n) == IF n >= Len(q) THEN q ELSE SubSeq(q, 1, n)


(***************************************************************************)
(* The upstream API: what requests.get can come back with.                 *)
(***************************************************************************)
Ops == {"teams", "team", "matches", "standings"}

Team(i, n) == D([id |-> I(i), name |-> S(n)])

\* entry i of an upstream matches array
Match(i, st) == D([id |-> I(i), status |-> S(st)])

\* entry i of an upstream standings array; its table names the entry
Standing(i, ty) ==
    D([type |-> S(ty), table |-> L(<<D([position |-> I(1), group |-> I(i)])>>)])

MatchStatuses == {"FINISHED", "TIMED"}
StandingTypes == {"TOTAL", "HOME"}

\* all arrays of at most MaxEntries entries, entry i built by Mk(i, tag)
SeqsUpTo(Tags) == UNION {[1..n -> Tags] : n \in 0..MaxEntries}

MatchArrays == {[i \in DOMAIN f |-> Match(i, f[i])] : f \in SeqsUpTo(MatchStatuses)}
StandingArrays == {[i \in DOMAIN f |-> Standing(i, f[i])] : f \in SeqsUpTo(StandingTypes)}

\* a 2xx body that lacks the key the fetcher looks for
OtherBody == D([count |-> I(0)])

\* the JSON bodies a 2xx response to each fetcher's endpoint can carry
Bodies(op) ==
    CASE op = "teams"     -> {D([teams |-> L(<<Team(57, "Arsenal"), Team(61, "Chelsea")>>)]),
                              OtherBody, EmptyDict}
      [] op = "team"      -> {Team(57, "Arsenal"), EmptyDict}
      [] op = "matches"   -> {D([matches |-> L(q)]) : q \in MatchArrays} \cup {OtherBody}
      [] op = "standings" -> {D([standings |-> L(q)]) : q \in StandingArrays} \cup {OtherBody}

ErrorBody(status) == D([errorCode |-> I(status), message |-> S("error")])

ErrorStatuses == {429, 403, 404, 500}

\* requests.get(url, ...): a response, or a RequestException (timeout, connection)
Outcomes(op) ==
    {[kind |-> "response", status |-> 200, body |-> b] : b \in Bodies(op)}
    \cup {[kind |-> "response", status |-> s, body |-> ErrorBody(s)] : s \in ErrorStatuses}
    \cup {[kind |-> "exception", status |-> 0, body |-> NoneV]}

(***************************************************************************)
(* football_data_get: classification of the transport outcome.             *)
(* data is the value returned, flash the flash() calls made, raised        *)
(* whether an exception leaves the function.                               *)
(***************************************************************************)
Flash(message, category) == [message |-> message, category |-> category]

\* str(e) of the RequestException caught at line 90
Cause(o) ==
    IF o.kind = "exception" THEN "connection failed"
    ELSE IntToStr(o.status) \o " Error"

\* football_data_get swallowing the exception of requests.get without a flash
football_data_get_silent(o) ==
    IF o.kind = "exception"
    THEN [data |-> NoneV, raised |-> FALSE, flash |-> <<>>]
    ELSE IF o.status = 429
    THEN [data |-> NoneV, raised |-> FALSE,
          flash |-> <<Flash("Limite de requests excedido. Espera un minuto.", "warning")>>]
    ELSE IF o.status = 403
    THEN [data |-> NoneV, raised |-> FALSE,
          flash |-> <<Flash("API Key invalida o no configurada.", "danger")>>]
    ELSE IF o.status = 404
    THEN [data |-> NoneV, raised |-> FALSE, flash |-> <<>>]
    ELSE IF o.status >= 400 /\ o.status < 600
    THEN [data |-> NoneV, raised |-> FALSE,
          flash |-> <<Flash("Error de conexion: " \o Cause(o), "danger")>>]
    ELSE [data |-> o.body, raised |-> FALSE, flash |-> <<>>]

\* football_data_get without r.raise_for_status(): any status but 429/403/404 is parsed
football_data_get_unchecked(o) ==
    IF o.kind = "exception"
    THEN [data |-> NoneV, raised |-> FALSE,
          flash |-> <<Flash("Error de conexion: " \o Cause(o), "danger")>>]
    ELSE IF o.status = 429
    THEN [data |-> NoneV, raised |-> FALSE,
          flash |-> <<Flash("Limite de requests excedido. Espera un minuto.", "warning")>>]
    ELSE IF o.status = 403
    THEN [data |-> NoneV, raised |-> FALSE,
          flash |-> <<Flash("API Key invalida o no configurada.", "danger")>>]
    ELSE IF o.status = 404
    THEN [data |-> NoneV, raised |-> FALSE, flash |-> <<>>]
    ELSE [data |-> o.body, raised |-> FALSE, flash |-> <<>>]

football_data_get(o) ==
    IF o.kind = "exception"
    THEN [data |-> NoneV, raised |-> FALSE,
          flash |-> <<Flash("Error de conexion: " \o Cause(o), "danger")>>]
    ELSE IF o.status = 429
    THEN [data |-> NoneV, raised |-> FALSE,
          flash |-> <<Flash("Limite de requests excedido. Espera un minuto.", "warning")>>]
    ELSE IF o.status = 403
    THEN [data |-> NoneV, raised |-> FALSE,
          flash |-> <<Flash("API Key invalida o no configurada.", "danger")>>]
    ELSE IF o.status = 404
    THEN [data |-> NoneV, raised |-> FALSE, flash |-> <<>>]
    ELSE IF o.status >= 400 /\ o.status < 600
    \* r.raise_for_status() raises HTTPError, a RequestException: caught
    THEN [data |-> NoneV, raised |-> FALSE,
          flash |-> <<Flash("Error de conexion: " \o Cause(o), "danger")>>]
    ELSE [data |-> o.body, raised |-> FALSE, flash |-> <<>>]

(***************************************************************************)
(* The four fetchers.  args is the tuple of positional arguments of the    *)
(* call; a parameter left out takes its default.                           *)
(***************************************************************************)
Arg(args, i, default) == IF Len(args) >= i THEN args[i] ELSE default

\* `if not season: season = "2023"`
SeasonOrDefault(season) == IF Falsy(season) THEN S("2023") ELSE season

\* the URL path each fetcher hands to football_data_get
teams_endpoint(args) ==
    "competitions/" \o str(args[1]) \o "/teams?season="
        \o str(SeasonOrDefault(Arg(args, 2, NoneV)))

team_endpoint(args) == "teams/" \o str(args[1])

matches_endpoint(args) ==
    "teams/" \o str(args[1]) \o "/matches?season="
        \o str(SeasonOrDefault(Arg(args, 2, NoneV)))
        \o "&limit=" \o str(I(Arg(args, 3, I(DEFAULT_LIMIT)).v * 2))

standings_endpoint(args) ==
    "competitions/" \o str(args[1]) \o "/standings?season="
        \o str(SeasonOrDefault(Arg(args, 2, NoneV)))

Endpoint(op, args) ==
    CASE op = "teams"     -> teams_endpoint(args)
      [] op = "team"      -> team_endpoint(args)
      [] op = "matches"   -> matches_endpoint(args)
      [] op = "standings" -> standings_endpoint(args)

get_teams_in_league(args, data) ==
    IF Falsy(data) \/ ~HasKey(data, "teams") THEN EmptyList ELSE data.v["teams"]

get_team_by_id(args, data) == IF Falsy(data) THEN EmptyDict ELSE data

\* match.get('status') == 'FINISHED'
IsFinished(match) == DictGet(match, "status", NoneV) = S("FINISHED")

\* get_last_matches_for_team truncating before it filters
get_last_matches_truncate_first(args, data) ==
    IF Falsy(data) \/ ~HasKey(data, "matches") THEN EmptyList
    ELSE L(SelectSeq(Prefix(data.v["matches"].v, Arg(args, 3, I(DEFAULT_LIMIT)).v),
                     IsFinished))

get_last_matches_for_team(args, data) ==
    IF Falsy(data) \/ ~HasKey(data, "matches") THEN EmptyList
    ELSE L(Prefix(SelectSeq(data.v["matches"].v, IsFinished),
                  Arg(args, 3, I(DEFAULT_LIMIT)).v))

RECURSIVE FirstTotal(_, _)
\* the loop over data['standings'], from entry i on
FirstTotal(standings, i) ==
    IF i > Len(standings) THEN EmptyList
    ELSE IF standings[i].v["type"] = S("TOTAL") THEN standings[i].v["table"]
    ELSE FirstTotal(standings, i + 1)

\* get_league_standings taking the first group whatever its type
get_league_standings_first_group(args, data) ==
    IF Falsy(data) \/ ~HasKey(data, "standings") THEN EmptyList
    ELSE IF data.v["standings"].v = <<>> THEN EmptyList
    ELSE data.v["standings"].v[1].v["table"]

get_league_standings(args, data) ==
    IF Falsy(data) \/ ~HasKey(data, "standings") THEN EmptyList
    ELSE FirstTotal(data.v["standings"].v, 1)

\* the value the wrapped function returns for the data football_data_get gave it
Fetcher(op, args, data) ==
    CASE op = "teams"     -> get_teams_in_league(args, data)
      [] op = "team"      -> get_team_by_id(args, data)
      [] op = "matches"   -> get_last_matches_for_team(args, data)
      [] op = "standings" -> get_league_standings(args, data)

(***************************************************************************)
(* functools.lru_cache: per function, entries in recency order (the first  *)
(* is the least recently used), keyed by the arguments as passed.          *)
(***************************************************************************)
maxsize(op) == IF op \in {"teams", "standings"} THEN Cap128 ELSE Cap256

\* the key lru_cache builds: the positional arguments of the call
\* a key built from the first argument only
make_key_first_only(args) == <<args[1]>>

make_key(args) == args

\* index of key in entries q, 0 when absent
IndexOf(q, key) ==
    IF \E i \in DOMAIN q : q[i].key = key
    THEN CHOOSE i \in DOMAIN q : q[i].key = key
    ELSE 0

RemoveAt(q, i) == SubSeq(q, 1, i - 1) \o SubSeq(q, i + 1, Len(q))

\* a hit moves the entry to the most recent end
\* a hit that leaves the order of the entries alone
lru_touch_none(q, i) == q

lru_touch(q, i) == Append(RemoveAt(q, i), q[i])

\* a store that makes room by dropping the newest entry
lru_store_evict_newest(q, key, value, cap) ==
    IF IndexOf(q, key) # 0 THEN q
    ELSE IF Len(q) >= cap
    THEN Append(SubSeq(q, 1, Len(q) - 1), [key |-> key, value |-> value])
    ELSE Append(q, [key |-> key, value |-> value])

\* lru_store that never keeps the result
lru_store_nothing(q, key, value, cap) == q

\* storing a result after a miss
lru_store(q, key, value, cap) ==
    IF IndexOf(q, key) # 0 THEN q
    ELSE IF Len(q) >= cap THEN Append(Tail(q), [key |-> key, value |-> value])
    ELSE Append(q, [key |-> key, value |-> value])

(***************************************************************************)
(* Callers.  Each run serves the fetches of one menu: the calls that the   *)
(* request handlers of the run make.                                       *)
(***************************************************************************)
Threads == {1, 2}

SeasonArgs == {NoneV, S("2023"), S("2022")}

\* (league_code) and (league_code, season)
LeagueArgs(l) == {<<S(l)>>} \cup {<<S(l), s>> : s \in SeasonArgs}

\* (team_id), (team_id, season) and (team_id, season, limit)
MatchesArgs(tid) ==
    {<<tid>>}
    \cup {<<tid, s>> : s \in {NoneV, S("2023")}}
    \cup {<<tid, s, I(n)>> : s \in {NoneV, S("2023")}, n \in 1..MaxLimit}

TeamsMenu     == {<<"teams", a>> : a \in LeagueArgs("PL")}
StandingsMenu == {<<"standings", a>> : a \in LeagueArgs("PL")}
TeamMenu      == {<<"team", <<S("57")>>>>, <<"team", <<I(57)>>>>, <<"team", <<S("61")>>>>}
MatchesMenu   == {<<"matches", a>> : a \in MatchesArgs(S("57"))}

\* the four fetches of index() for ?league_id=PL&team_id=57&season=2023&limit=1
IndexMenu ==
    {<<"teams", <<S("PL"), S("2023")>>>>, <<"team", <<S("57")>>>>,
     <<"matches", <<S("57"), S("2023"), I(1)>>>>, <<"standings", <<S("PL"), S("2023")>>>>}

\* the team-info fetches of two concurrent requests
ConcMenu == {<<"team", <<S("57")>>>>, <<"team", <<S("61")>>>>}

Menus == {TeamsMenu, StandingsMenu, TeamMenu, MatchesMenu, IndexMenu}

\* time.time() at process start: far beyond REQUEST_DELAY after the epoch
StartTime == REQUEST_DELAY

NoFrame == [op |-> "", args |-> <<>>, wake |-> 0, stamp |-> 0]
NoOutcome == [kind |-> "none", status |-> 0, body |-> NoneV]
NoCall == [op |-> "", args |-> <<>>, hit |-> FALSE, ret |-> NoneV, raised |-> FALSE,
           outcome |-> NoOutcome, flash |-> <<>>]

\* the normaliser is at rest while the fetch layer runs
NormIdle ==
    /\ nm_matches = <<>>
    /\ nm_team_id = NoneV
    /\ nm_out = [raised |-> FALSE, list |-> <<>>]
    /\ nm_pc = "off"

\* a run of `calls` fetch calls that ends `ticks` after process start
FetchInit(Callers, calls, ticks) ==
    /\ now = StartTime
    /\ budget = [calls |-> calls, until |-> StartTime + ticks]
    /\ LAST_REQUEST_TIME = 0
    /\ cache = [op \in Ops |-> <<>>]
    /\ active = Callers
    /\ pc = [t \in Threads |-> "idle"]
    /\ frame = [t \in Threads |-> NoFrame]
    /\ ncalls = 0
    /\ netlog = <<>>
    /\ last = [t \in Threads |-> NoCall]
    /\ memo = {}
    /\ evicted = {}
    /\ uselog = <<>>
    /\ NormIdle

\* a hit that goes through the rate limiter's stamp
CacheHit_stamping(t) ==
    /\ pc[t] = "idle"
    /\ ncalls < budget.calls
    /\ \E c \in menu :
         LET op == c[1]
             args == c[2]
             i == IndexOf(cache[op], make_key(args))
         IN /\ i # 0
            /\ cache' = [cache EXCEPT ![op] = lru_touch(@, i)]
            /\ last' = [last EXCEPT ![t] =
                          [op |-> op, args |-> args, hit |-> TRUE,
                           ret |-> cache[op][i].value, raised |-> FALSE,
                           outcome |-> NoOutcome, flash |-> <<>>]]
            /\ uselog' = Append(uselog, [op |-> op, key |-> make_key(args), hit |-> TRUE])
    /\ ncalls' = ncalls + 1
    /\ LAST_REQUEST_TIME' = now
    /\ UNCHANGED <<now, pc, frame, active, menu, budget, netlog, memo,
                   evicted, norm_vars>>

\* a call answered by lru_cache without running the function
CacheHit(t) ==
    /\ pc[t] = "idle"
    /\ ncalls < budget.calls
    /\ \E c \in menu :
         LET op == c[1]
             args == c[2]
             i == IndexOf(cache[op], make_key(args))
         IN /\ i # 0
            /\ cache' = [cache EXCEPT ![op] = lru_touch(@, i)]
            /\ last' = [last EXCEPT ![t] =
                          [op |-> op, args |-> args, hit |-> TRUE,
                           ret |-> cache[op][i].value, raised |-> FALSE,
                           outcome |-> NoOutcome, flash |-> <<>>]]
            /\ uselog' = Append(uselog, [op |-> op, key |-> make_key(args), hit |-> TRUE])
    /\ ncalls' = ncalls + 1
    /\ UNCHANGED <<now, LAST_REQUEST_TIME, pc, frame, active, menu, budget, netlog, memo,
                   evicted, norm_vars>>

\* a call lru_cache has no entry for: the function body starts
CacheMiss(t) ==
    /\ pc[t] = "idle"
    /\ ncalls < budget.calls
    /\ \E c \in menu :
         /\ IndexOf(cache[c[1]], make_key(c[2])) = 0
         /\ frame' = [frame EXCEPT ![t] = [op |-> c[1], args |-> c[2], wake |-> 0, stamp |-> 0]]
    /\ pc' = [pc EXCEPT ![t] = "rate_limit"]
    /\ last' = [last EXCEPT ![t] = NoCall]
    /\ ncalls' = ncalls + 1
    /\ UNCHANGED <<now, LAST_REQUEST_TIME, cache, active, menu, budget, netlog, memo,
                   evicted, uselog, norm_vars>>

\* SleepFor sleeping one time unit short
SleepFor_short(current_time, last_request_time) ==
    LET elapsed == current_time - last_request_time
    IN IF elapsed < REQUEST_DELAY THEN REQUEST_DELAY - elapsed - 1 ELSE 0

\* REQUEST_DELAY - elapsed when elapsed < REQUEST_DELAY, else no sleep
SleepFor(current_time, last_request_time) ==
    LET elapsed == current_time - last_request_time
    IN IF elapsed < REQUEST_DELAY THEN REQUEST_DELAY - elapsed ELSE 0

\* rate_limited_request, lines 60-64: read the clock and the stamp, decide
RateLimitCheck(t) ==
    /\ pc[t] = "rate_limit"
    /\ LET d == SleepFor(now, LAST_REQUEST_TIME)
       IN IF d > 0
          THEN /\ pc' = [pc EXCEPT ![t] = "sleep"]
               /\ frame' = [frame EXCEPT ![t].wake = now + d]
          ELSE /\ pc' = [pc EXCEPT ![t] = "stamp"]
               /\ frame' = frame
    /\ UNCHANGED <<now, LAST_REQUEST_TIME, cache, active, menu, budget, ncalls, netlog, last,
                   memo, evicted, uselog, norm_vars>>

\* time.sleep returns, no earlier than asked
Wake(t) ==
    /\ pc[t] = "sleep"
    /\ now >= frame[t].wake
    /\ pc' = [pc EXCEPT ![t] = "stamp"]
    /\ UNCHANGED <<now, LAST_REQUEST_TIME, cache, frame, active, menu, budget, ncalls, netlog,
                   last, memo, evicted, uselog, norm_vars>>

\* rate_limited_request, line 66, right-hand side: time.time() is evaluated
StampRead(t) ==
    /\ pc[t] = "stamp"
    /\ frame' = [frame EXCEPT ![t].stamp = now]
    /\ pc' = [pc EXCEPT ![t] = "store"]
    /\ UNCHANGED <<now, LAST_REQUEST_TIME, cache, active, menu, budget, ncalls, netlog,
                   last, memo, evicted, uselog, norm_vars>>

\* rate_limited_request, line 66, assignment: the value read is stored
Stamp(t) ==
    /\ pc[t] = "store"
    /\ LAST_REQUEST_TIME' = frame[t].stamp
    /\ pc' = [pc EXCEPT ![t] = "request"]
    /\ UNCHANGED <<now, cache, frame, active, menu, budget, ncalls, netlog, last, memo,
                   evicted, uselog, norm_vars>>

\* football_data_get, line 76: requests.get sends the request
Request(t) ==
    /\ pc[t] = "request"
    /\ netlog' = Append(netlog, [time |-> now, thread |-> t, op |-> frame[t].op,
                                 args |-> frame[t].args,
                                 endpoint |-> Endpoint(frame[t].op, frame[t].args)])
    /\ pc' = [pc EXCEPT ![t] = "inflight"]
    /\ UNCHANGED <<now, LAST_REQUEST_TIME, cache, frame, active, menu, budget, ncalls, last,
                   memo, evicted, uselog, norm_vars>>

\* requests.get answers; football_data_get classifies, the fetcher filters,
\* lru_cache stores what the fetcher returned
Respond(t) ==
    /\ pc[t] = "inflight"
    /\ \E o \in Outcomes(frame[t].op) :
         LET op == frame[t].op
             args == frame[t].args
             key == make_key(args)
             r == football_data_get(o)
             value == Fetcher(op, args, r.data)
             q == cache[op]
             evicts == IndexOf(q, key) = 0 /\ Len(q) >= maxsize(op)
         IN /\ cache' = IF r.raised THEN cache
                        ELSE [cache EXCEPT ![op] = lru_store(q, key, value, maxsize(op))]
            /\ last' = [last EXCEPT ![t] =
                          [op |-> op, args |-> args, hit |-> FALSE,
                           ret |-> IF r.raised THEN NoneV ELSE value,
                           raised |-> r.raised, outcome |-> o, flash |-> r.flash]]
            /\ memo' = IF r.raised THEN memo
                       ELSE {m \in memo : ~(m.op = op /\ m.args = args)}
                            \cup {[op |-> op, args |-> args, ret |-> value,
                                   ok |-> o.kind = "response" /\ o.status = 200]}
            /\ evicted' = IF ~r.raised /\ evicts
                          THEN evicted \cup {<<op, q[1].key>>}
                          ELSE evicted
            /\ uselog' = IF ~r.raised /\ IndexOf(q, key) = 0
                         THEN Append(uselog, [op |-> op, key |-> key, hit |-> FALSE])
                         ELSE uselog
    /\ pc' = [pc EXCEPT ![t] = "idle"]
    /\ frame' = [frame EXCEPT ![t] = NoFrame]
    /\ UNCHANGED <<now, LAST_REQUEST_TIME, active, menu, budget, ncalls, netlog, norm_vars>>

\* a caller not running Python: between calls, in time.sleep or in requests.get
Waiting(t) == pc[t] \in {"idle", "sleep", "inflight"}

\* the clock advances while every caller waits, or while two running callers
\* contend for the interpreter and one of them is held back
Tick ==
    /\ now < budget.until
    /\ \/ \A t \in active : Waiting(t)
       \/ \E t, u \in active : t # u /\ ~Waiting(t) /\ ~Waiting(u)
    /\ (ncalls < budget.calls \/ \E t \in active : pc[t] # "idle")
    /\ now' = now + 1
    /\ UNCHANGED <<LAST_REQUEST_TIME, cache, pc, frame, active, menu, budget, ncalls, netlog,
                   last, memo, evicted, uselog, norm_vars>>

FetchNext ==
    \/ \E t \in active : CacheHit(t)
    \/ \E t \in active : CacheMiss(t)
    \/ \E t \in active : RateLimitCheck(t)
    \/ \E t \in active : Wake(t)
    \/ \E t \in active : StampRead(t)
    \/ \E t \in active : Stamp(t)
    \/ \E t \in active : Request(t)
    \/ \E t \in active : Respond(t)
    \/ Tick

\* one execution context
Init == FetchInit({1}, MaxCalls, Horizon) /\ menu \in Menus
Spec == Init /\ [][FetchNext]_vars

\* two request threads asking for team info, as many fetch calls as threads
InitConc == FetchInit(Threads, Cardinality(Threads), ConcHorizon) /\ menu = ConcMenu
SpecConc == InitConc /\ [][FetchNext]_vars

\* one execution context filling the team-info cache past its capacity
InitCache == FetchInit({1}, CacheCalls, CacheHorizon) /\ menu = TeamMenu
SpecCache == InitCache /\ [][FetchNext]_vars

(***************************************************************************)
(* The match normaliser: parse_date and build_match_list_from_matches.     *)
(***************************************************************************)
\* datetime.fromisoformat, on the strings it accepts (anything else raises ValueError)
IsoFormats ==
    [s \in {"2024-03-09T15:00:00+00:00"} |->
        [type |-> "datetime", v |-> <<2024, 3, 9, 15, 0, 0>>]]

\* date_str.replace('Z', '+00:00'), on the date strings of the model
ReplaceZ(s) ==
    CASE s = "2024-03-09T15:00:00Z" -> "2024-03-09T15:00:00+00:00"
      [] OTHER -> s

parse_date(date_str) ==
    IF Falsy(date_str) THEN NoneV
    \* a non-string has no .replace: AttributeError, caught by `except Exception`
    ELSE IF date_str.type # "str" THEN NoneV
    ELSE IF ReplaceZ(date_str.v) \in DOMAIN IsoFormats
         THEN IsoFormats[ReplaceZ(date_str.v)]
         ELSE NoneV

\* x.get(...) raises AttributeError unless x is a dict
CanGet(x) == x.type = "dict"

\* match_result with an absent score counted as 0
match_result_zero_default(goals_for, goals_against) ==
    LET gf == IF goals_for = NoneV THEN 0 ELSE goals_for.v
        ga == IF goals_against = NoneV THEN 0 ELSE goals_against.v
    IN IF gf > ga THEN S("W") ELSE IF gf = ga THEN S("D") ELSE S("L")

\* lines 206-214
match_result(goals_for, goals_against) ==
    IF goals_for # NoneV /\ goals_against # NoneV
    THEN IF goals_for.v > goals_against.v THEN S("W")
         ELSE IF goals_for.v = goals_against.v THEN S("D")
         ELSE S("L")
    ELSE NoneV

\* is_home_team comparing the identifiers as they come, without str()
is_home_team_untyped(team_id, home_id) == team_id = home_id

\* `str(team_id) == str(home_id)`, line 194
is_home_team(team_id, home_id) == str(team_id) = str(home_id)

\* one pass of the loop body, lines 177-227: raised when an AttributeError
\* leaves it, else the record appended
normalize_one(match, team_id) ==
    LET home_team == DictGet(match, "homeTeam", EmptyDict)
        away_team == DictGet(match, "awayTeam", EmptyDict)
        score0    == DictGet(match, "score", EmptyDict)
        comp      == DictGet(match, "competition", EmptyDict)
    IN IF ~CanGet(score0) \/ ~CanGet(home_team) \/ ~CanGet(away_team)
       THEN [raised |-> TRUE]
       ELSE
       LET score == DictGet(score0, "fullTime", EmptyDict)
       IN IF ~CanGet(score) \/ ~CanGet(comp)
          THEN [raised |-> TRUE]
          ELSE
          LET home_id    == DictGet(home_team, "id", NoneV)
              home_name  == DictGet(home_team, "name", S(""))
              away_name  == DictGet(away_team, "name", S(""))
              home_score == DictGet(score, "home", NoneV)
              away_score == DictGet(score, "away", NoneV)
              is_home    == is_home_team(team_id, home_id)
              goals_for     == IF is_home THEN home_score ELSE away_score
              goals_against == IF is_home THEN away_score ELSE home_score
          IN [raised |-> FALSE,
              rec |-> [date |-> parse_date(DictGet(match, "utcDate", NoneV)),
                       opponent |-> IF is_home THEN away_name ELSE home_name,
                       goals_for |-> goals_for,
                       goals_against |-> goals_against,
                       result |-> match_result(goals_for, goals_against),
                       is_home |-> is_home,
                       status |-> S("Finalizado"),
                       competition |-> DictGet(comp, "name", S("")),
                       raw |-> match]]

RECURSIVE build_from(_, _, _, _)
\* the loop of build_match_list_from_matches from entry i on, match_list so far
build_from(matches, team_id, i, match_list) ==
    IF i > Len(matches) THEN [raised |-> FALSE, list |-> match_list]
    ELSE LET r == normalize_one(matches[i], team_id)
         IN IF r.raised THEN [raised |-> TRUE, list |-> <<>>]
            ELSE build_from(matches, team_id, i + 1, Append(match_list, r.rec))

build_match_list_from_matches(matches, team_id) == build_from(matches, team_id, 1, <<>>)

(***************************************************************************)
(* Raw matches handed to the normaliser: every field present, null or      *)
(* absent.                                                                 *)
(***************************************************************************)
Absent == <<>>

UtcOpts ==
    {Absent, "utcDate" :> NoneV, "utcDate" :> S("2024-03-09T15:00:00Z"),
     "utcDate" :> S("garbage")}

HomeOpts ==
    {Absent, "homeTeam" :> NoneV, "homeTeam" :> Team(57, "Arsenal"),
     "homeTeam" :> EmptyDict}

AwayOpts == {Absent, "awayTeam" :> NoneV, "awayTeam" :> Team(61, "Chelsea")}

GoalOpts(side) == {Absent, side :> NoneV} \cup {side :> I(g) : g \in 0..MaxGoals}

ScoreOpts ==
    {Absent, "score" :> NoneV, "score" :> EmptyDict, "score" :> D("fullTime" :> NoneV)}
    \cup {"score" :> D("fullTime" :> D(h @@ a)) : h \in GoalOpts("home"), a \in GoalOpts("away")}

CompOpts ==
    {Absent, "competition" :> NoneV, "competition" :> D("name" :> S("Premier League"))}

RawMatches ==
    {D(("status" :> S("FINISHED")) @@ u @@ h @@ a @@ sc @@ c) :
        u \in UtcOpts, h \in HomeOpts, a \in AwayOpts, sc \in ScoreOpts, c \in CompOpts}

\* a match as the upstream sends it for a finished game
WellFormed ==
    D(("status" :> S("FINISHED")) @@ ("utcDate" :> S("2024-03-09T15:00:00Z"))
      @@ ("homeTeam" :> Team(61, "Chelsea")) @@ ("awayTeam" :> Team(57, "Arsenal"))
      @@ ("score" :> D("fullTime" :> D(("home" :> I(1)) @@ ("away" :> I(0)))))
      @@ ("competition" :> D("name" :> S("Premier League"))))

NormInputs ==
    {<<>>} \cup {<<m>> : m \in RawMatches}
    \cup {<<m, WellFormed>> : m \in RawMatches}
    \cup {<<WellFormed, m>> : m \in RawMatches}

\* team_id as request.args gives it (a string) or as the API gives it (a number)
NormTeamIds == {S("57"), I(57), S("61")}

InitNorm ==
    /\ now = StartTime
    /\ LAST_REQUEST_TIME = 0
    /\ cache = [op \in Ops |-> <<>>]
    /\ active = {}
    /\ menu = {}
    /\ budget = [calls |-> 0, until |-> StartTime]
    /\ pc = [t \in Threads |-> "idle"]
    /\ frame = [t \in Threads |-> NoFrame]
    /\ ncalls = 0
    /\ netlog = <<>>
    /\ last = [t \in Threads |-> NoCall]
    /\ memo = {}
    /\ evicted = {}
    /\ uselog = <<>>
    /\ nm_matches \in NormInputs
    /\ nm_team_id \in NormTeamIds
    /\ nm_out = [raised |-> FALSE, list |-> <<>>]
    /\ nm_pc = "ready"

\* matches = build_match_list_from_matches(matches_data, team_id)
Normalize ==
    /\ nm_pc = "ready"
    /\ nm_out' = build_match_list_from_matches(nm_matches, nm_team_id)
    /\ nm_pc' = "done"
    /\ UNCHANGED <<nm_matches, nm_team_id, fetch_vars>>

NormNext == Normalize

SpecNorm == InitNorm /\ [][NormNext]_vars

(***************************************************************************)
(* Properties.                                                             *)
(***************************************************************************)
Min(a, b) == IF a <= b THEN a ELSE b

\* network calls issued so far for the call (op, args)
NetCalls(op, args) ==
    Cardinality({i \in DOMAIN netlog : netlog[i].op = op /\ netlog[i].args = args})

\* the season and limit a call's arguments stand for
SeasonText(args) == IF Len(args) >= 2 /\ args[2] # NoneV THEN args[2].v ELSE "2023"
LimitOf(args) == IF Len(args) >= 3 THEN args[3].v ELSE DEFAULT_LIMIT

\* C1: in a sequence of calls, as long as a call's key is not evicted, the
\* calls made with it issue at most one network call, and a call with it
\* returns the value its first call computed.
C1_RepeatedCallHitsCache ==
    \A c \in menu :
        <<c[1], c[2]>> \notin evicted =>
            /\ NetCalls(c[1], c[2]) <= 1
            /\ (last[1].op = c[1] /\ last[1].args = c[2]) =>
                   \E m \in memo : m.op = c[1] /\ m.args = c[2] /\ m.ret = last[1].ret

\* a second call answered from the cache with a non-empty value
C1_Witness ==
    /\ last[1].hit
    /\ NetCalls(last[1].op, last[1].args) = 1
    /\ <<last[1].op, last[1].args>> \notin evicted
    /\ ~Falsy(last[1].ret)

\* C2: in one execution context, each network call is issued at least
\* REQUEST_DELAY after the network call before it.
C2_SequentialGap ==
    \A i \in 1..(Len(netlog) - 1) :
        netlog[i + 1].time - netlog[i].time >= REQUEST_DELAY

\* two misses with different keys, the second one held back by the sleep
C2_Witness ==
    /\ Len(netlog) >= 2
    /\ netlog[1].args # netlog[2].args
    /\ netlog[2].time - netlog[1].time = REQUEST_DELAY

\* a caller that has passed the elapsed check and not yet stamped
InRateLimiter(t) == pc[t] \in {"sleep", "stamp", "store"}

\* C3: concurrent callers go through check, sleep and stamp one at a time,
\* and any two network calls are at least REQUEST_DELAY apart.
C3_RateLimiterAtomic ==
    /\ \A t, u \in active : (t # u /\ InRateLimiter(t)) => ~InRateLimiter(u)
    /\ \A i, j \in DOMAIN netlog :
           i < j => netlog[j].time - netlog[i].time >= REQUEST_DELAY

ExpectedKey(op) ==
    CASE op = "teams"     -> "teams"
      [] op = "matches"   -> "matches"
      [] op = "standings" -> "standings"
      [] OTHER            -> ""

EmptyResult(op) == IF op = "team" THEN EmptyDict ELSE EmptyList

\* 429, 403, 404, another error status, a RequestException, or a 200 body
\* without the fetcher's key
FailureOutcome(op, o) ==
    \/ o.kind = "exception"
    \/ o.kind = "response" /\ o.status # 200
    \/ o.kind = "response" /\ o.status = 200 /\ op # "team"
         /\ ~HasKey(o.body, ExpectedKey(op))

\* C4: no fetch raises to its caller, and on every failure outcome the three
\* list fetchers return [] and get_team_by_id returns {}.
C4_FailuresGiveEmpty ==
    \A t \in active :
        /\ ~last[t].raised
        /\ (last[t].op # "" /\ ~last[t].hit /\ FailureOutcome(last[t].op, last[t].outcome))
               => last[t].ret = EmptyResult(last[t].op)

\* get_team_by_id answered with HTTP 500
C4_Witness ==
    \E t \in active :
        /\ last[t].op = "team"
        /\ last[t].outcome.kind = "response"
        /\ last[t].outcome.status = 500
        /\ last[t].ret = EmptyDict

\* the score field of a raw match for one side, None when any level is missing or null
RawScore(m, side) ==
    LET sc == DictGet(m, "score", NoneV)
        ft == IF sc.type = "dict" THEN DictGet(sc, "fullTime", NoneV) ELSE NoneV
    IN IF ft.type = "dict" THEN DictGet(ft, side, NoneV) ELSE NoneV

\* id and name of a side's team in a raw match
RawTeamField(m, team, field, default) ==
    LET tm == DictGet(m, team, NoneV)
    IN IF tm.type = "dict" THEN DictGet(tm, field, default) ELSE default

NormDone == nm_pc = "done" /\ ~nm_out.raised

\* C5: in every record produced, result is None exactly when goals_for or
\* goals_against is None; otherwise it is W, D or L as goals_for is greater
\* than, equal to or less than goals_against; the two goals fields are the raw
\* match's two scores, an absent one staying None.
C5_ResultClassification ==
    NormDone =>
        \A i \in DOMAIN nm_out.list :
            LET r == nm_out.list[i]
                m == nm_matches[i]
            IN /\ (r.result = NoneV) <=> (r.goals_for = NoneV \/ r.goals_against = NoneV)
               /\ (r.goals_for # NoneV /\ r.goals_against # NoneV) =>
                     /\ (r.result = S("W")) <=> (r.goals_for.v > r.goals_against.v)
                     /\ (r.result = S("D")) <=> (r.goals_for.v = r.goals_against.v)
                     /\ (r.result = S("L")) <=> (r.goals_for.v < r.goals_against.v)
               /\ {r.goals_for, r.goals_against} = {RawScore(m, "home"), RawScore(m, "away")}

\* a record with one score present (0) and the other absent: result None
C5_Witness ==
    /\ NormDone
    /\ \E i \in DOMAIN nm_out.list :
           /\ nm_out.list[i].goals_for = I(0)
           /\ nm_out.list[i].goals_against = NoneV
           /\ nm_out.list[i].result = NoneV

\* C6: is_home is true exactly when str(team_id) equals str(homeTeam.id);
\* the home side's record takes the home score, the away score and the away
\* team's name, the other side's the reverse.
C6_HomeAwayRole ==
    NormDone =>
        \A i \in DOMAIN nm_out.list :
            LET r == nm_out.list[i]
                m == nm_matches[i]
            IN /\ r.is_home <=> (str(nm_team_id) = str(RawTeamField(m, "homeTeam", "id", NoneV)))
               /\ r.is_home =>
                     /\ r.goals_for = RawScore(m, "home")
                     /\ r.goals_against = RawScore(m, "away")
                     /\ r.opponent = RawTeamField(m, "awayTeam", "name", S(""))
               /\ ~r.is_home =>
                     /\ r.goals_for = RawScore(m, "away")
                     /\ r.goals_against = RawScore(m, "home")
                     /\ r.opponent = RawTeamField(m, "homeTeam", "name", S(""))

\* team_id "57" (a string) against homeTeam.id 57 (a number): home, with the home score
C6_Witness ==
    /\ NormDone
    /\ nm_team_id = S("57")
    /\ \E i \in DOMAIN nm_out.list :
           /\ RawTeamField(nm_matches[i], "homeTeam", "id", NoneV) = I(57)
           /\ nm_out.list[i].is_home
           /\ nm_out.list[i].goals_for = I(1)
           /\ nm_out.list[i].goals_against = I(0)
           /\ nm_out.list[i].opponent = S("Chelsea")

\* C7: whatever is absent or null in a raw match, the normaliser raises
\* nothing and returns one record per raw match, in the input's order.
C7_MalformedNeverRaises ==
    nm_pc = "done" =>
        /\ ~nm_out.raised
        /\ Len(nm_out.list) = Len(nm_matches)
        /\ \A i \in DOMAIN nm_out.list : nm_out.list[i].raw = nm_matches[i]

\* positions of the FINISHED entries of an upstream matches array
FinishedIdx(arr) == {i \in DOMAIN arr : DictGet(arr[i], "status", NoneV) = S("FINISHED")}

\* the k-th smallest member of a set of positions
KthOf(idx, k) == CHOOSE i \in idx : Cardinality({j \in idx : j <= i}) = k

\* C8: get_last_matches_for_team asks upstream for 2*limit matches and
\* returns the first min(limit, number of FINISHED entries) FINISHED entries
\* of the response, in upstream order; [] when the body has no matches key.
C8_FinishedFilterAndLimit ==
    /\ \A i \in DOMAIN netlog :
           netlog[i].op = "matches" =>
               netlog[i].endpoint =
                   "teams/" \o str(netlog[i].args[1]) \o "/matches?season="
                       \o SeasonText(netlog[i].args) \o "&limit="
                       \o IntToStr(2 * LimitOf(netlog[i].args))
    /\ \A t \in active :
           (last[t].op = "matches" /\ ~last[t].hit /\ last[t].outcome.status = 200) =>
               IF HasKey(last[t].outcome.body, "matches")
               THEN LET arr == last[t].outcome.body.v["matches"].v
                        idx == FinishedIdx(arr)
                        n   == Min(LimitOf(last[t].args), Cardinality(idx))
                        out == last[t].ret.v
                    IN /\ last[t].ret.type = "list"
                       /\ Len(out) = n
                       /\ \A k \in 1..n : out[k] = arr[KthOf(idx, k)]
               ELSE last[t].ret = EmptyList

\* more FINISHED entries upstream than the limit: exactly limit entries come back
C8_Witness ==
    \E t \in active :
        /\ last[t].op = "matches"
        /\ last[t].outcome.status = 200
        /\ HasKey(last[t].outcome.body, "matches")
        /\ Cardinality(FinishedIdx(last[t].outcome.body.v["matches"].v)) > LimitOf(last[t].args)
        /\ Len(last[t].ret.v) = LimitOf(last[t].args)

\* positions of the TOTAL entries of an upstream standings array
TotalIdx(arr) == {i \in DOMAIN arr : arr[i].v["type"] = S("TOTAL")}

\* C9: get_league_standings returns the table of the first TOTAL entry of
\* the response, and [] when there is none or no standings key.
C9_FirstTotalTable ==
    \A t \in active :
        (last[t].op = "standings" /\ ~last[t].hit /\ last[t].outcome.status = 200) =>
            IF HasKey(last[t].outcome.body, "standings")
                 /\ TotalIdx(last[t].outcome.body.v["standings"].v) # {}
            THEN LET arr == last[t].outcome.body.v["standings"].v
                 IN last[t].ret = arr[KthOf(TotalIdx(arr), 1)].v["table"]
            ELSE last[t].ret = EmptyList

\* a HOME group ahead of the TOTAL group: the TOTAL group's table comes back
C9_Witness ==
    \E t \in active :
        /\ last[t].op = "standings"
        /\ last[t].outcome.status = 200
        /\ HasKey(last[t].outcome.body, "standings")
        /\ LET arr == last[t].outcome.body.v["standings"].v
           IN /\ Len(arr) >= 2
              /\ arr[1].v["type"] = S("HOME")
              /\ arr[2].v["type"] = S("TOTAL")
              /\ last[t].ret = arr[2].v["table"]
              /\ last[t].ret # arr[1].v["table"]

\* the season argument is left out, None or "2023"
DefaultSeason(args) == Len(args) < 2 \/ args[2] \in {NoneV, S("2023")}

\* the two argument tuples agree in everything but the way the season is given
SameButSeason(a, b) ==
    /\ a[1] = b[1]
    /\ DefaultSeason(a) /\ DefaultSeason(b)
    /\ LimitOf(a) = LimitOf(b)
    /\ (Len(a) >= 3) <=> (Len(b) >= 3)

\* C10: calls of one fetcher that differ only in giving the default season
\* as nothing, None or "2023" share a cache entry: together they issue at
\* most one network call.
C10_DefaultSeasonSharesEntry ==
    \A c, d \in menu :
        (/\ c # d
         /\ c[1] = d[1]
         /\ c[1] \in {"teams", "matches", "standings"}
         /\ SameButSeason(c[2], d[2])
         /\ <<c[1], c[2]>> \notin evicted
         /\ <<d[1], d[2]>> \notin evicted)
            => NetCalls(c[1], c[2]) + NetCalls(d[1], d[2]) <= 1

\* the uses (insertions and hits) and the insertions of one cache, in order
Uses(op) == SelectSeq(uselog, LAMBDA u : u.op = op)
Inserts(op) == SelectSeq(uselog, LAMBDA u : u.op = op /\ ~u.hit)

KeysOf(q) == {q[i].key : i \in DOMAIN q}
DistinctKeys(q) == \A i, j \in DOMAIN q : i # j => q[i].key # q[j].key

\* the first-inserted key is gone, every key inserted after it is present
FirstOutRestIn(op, ins) ==
    /\ ins[1].key \notin KeysOf(cache[op])
    /\ \A i \in 2..Len(ins) : ins[i].key \in KeysOf(cache[op])

LastUse(q, k) == CHOOSE i \in DOMAIN q : q[i].key = k /\ \A j \in DOMAIN q : q[j].key = k => j <= i

\* the n most recently used distinct keys of q
RecentKeys(q, n) ==
    {k \in KeysOf(q) :
        Cardinality({j \in KeysOf(q) : LastUse(q, j) > LastUse(q, k)}) < n}

C13_NoCollision ==
    /\ \A op \in Ops : \A i \in DOMAIN cache[op] :
           \E m \in memo : /\ m.op = op
                           /\ m.args = cache[op][i].key
                           /\ m.ret = cache[op][i].value
    /\ \A t \in active :
           last[t].hit =>
               \E m \in memo : /\ m.op = last[t].op
                               /\ m.args = last[t].args
                               /\ m.ret = last[t].ret

\* two entries of one fetcher for the same team or league, differing in
\* season or limit and in value, and a hit that got the older one's value
C13_Witness ==
    \E op \in Ops :
        /\ Len(cache[op]) = 2
        /\ cache[op][1].key[1] = cache[op][2].key[1]
        /\ cache[op][1].key # cache[op][2].key
        /\ cache[op][1].value # cache[op][2].value
        /\ last[1].hit
        /\ last[1].op = op
        /\ last[1].args = cache[op][2].key
        /\ last[1].ret = cache[op][2].value
        /\ Inserts(op)[1].key = last[1].args

\* the step is a fetch call answered from the cache
HitStep ==
    /\ Len(uselog') = Len(uselog) + 1
    /\ uselog'[Len(uselog')].hit

\* C14: a fetch call answered from the cache leaves LAST_REQUEST_TIME and
\* the network calls issued as they were, takes no time and leaves every
\* caller where it was: the caller is not held up, and the sleep of the
\* next miss, computed from LAST_REQUEST_TIME, is not lengthened.
C14_HitLeavesLimiterAlone ==
    [][HitStep => /\ LAST_REQUEST_TIME' = LAST_REQUEST_TIME
                  /\ netlog' = netlog
                  /\ now' = now
                  /\ pc' = pc
                  /\ frame' = frame]_vars

\* one caller's fetch was answered from the cache after the network call
\* that filled it, with the stamp still the one of that network call
C14_Witness ==
    \E t \in active :
        /\ last[t].hit
        /\ uselog # <<>>
        /\ uselog[Len(uselog)].hit
        /\ Len(netlog) = 1
        /\ netlog[1].thread # t
        /\ LAST_REQUEST_TIME = netlog[1].time
        /\ now > LAST_REQUEST_TIME

\* C15: only successful results are memoized: every cache entry holds the
\* result of a call whose network call succeeded, and a call made after a
\* failed one with the same parameters is not answered from the cache.
C15_FailuresNotMemoized ==
    /\ \A op \in Ops : \A i \in DOMAIN cache[op] :
           \A m \in memo : (m.op = op /\ m.args = cache[op][i].key) => m.ok
    /\ \A t \in active :
           last[t].hit =>
               \A m \in memo : (m.op = last[t].op /\ m.args = last[t].args) => m.ok

\* C16: outbound network calls are serialized: a caller sends its request
\* only after its own pass through rate_limited_request has stamped, no two
\* callers await an answer at the same time, and the network calls of one
\* caller are issued in the order of its fetch calls.
C16_OutboundSerialized ==
    /\ \A t \in active :
           pc[t] \in {"request", "inflight"} => frame[t].stamp >= StartTime
    /\ \A t, u \in active : (t # u /\ pc[t] = "inflight") => pc[u] # "inflight"
    /\ \A i, j \in DOMAIN netlog :
           (i < j /\ netlog[i].thread = netlog[j].thread)
               => netlog[i].time <= netlog[j].time

\* the flash() calls the outcome o has to produce
ExpectedFlash(o, f) ==
    IF o.kind = "response" /\ o.status = 429
    THEN Len(f) = 1 /\ f[1].category = "warning"
    ELSE IF o.kind = "response" /\ o.status = 403
    THEN Len(f) = 1 /\ f[1].category = "danger"
    ELSE IF o.kind = "response" /\ o.status \in {200, 404}
    THEN f = <<>>
    ELSE /\ Len(f) = 1
         /\ f[1].category = "danger"
         /\ f[1].message = "Error de conexion: " \o Cause(o)

\* C17: the advisory of a fetch that went to the network is fixed by the
\* transport outcome: one warning for 429, one error for 403, one error
\* carrying the cause for any other failure, none for 404 and success.
C17_AdvisoryByOutcome ==
    \A t \in active :
        (last[t].op # "" /\ ~last[t].hit) => ExpectedFlash(last[t].outcome, last[t].flash)

\* one caller was answered 429 and warned, the other lost the connection
\* and got the error with its cause
C17_Witness ==
    /\ last[1].op # "" /\ ~last[1].hit
    /\ last[1].outcome.status = 429
    /\ last[1].flash[1].category = "warning"
    /\ last[2].op # "" /\ ~last[2].hit
    /\ last[2].outcome.kind = "exception"
    /\ last[2].flash = <<Flash("Error de conexion: connection failed", "danger")>>

\* C18: LAST_REQUEST_TIME never decreases under any interleaving of the
\* callers of rate_limited_request, and it changes only by the one stamp of
\* a cache-missing fetch call, made before the outcome of the network call
\* is known.
C18_StampNeverDecreases ==
    [][/\ LAST_REQUEST_TIME' >= LAST_REQUEST_TIME
       /\ LAST_REQUEST_TIME' # LAST_REQUEST_TIME =>
              \E t \in active : /\ pc[t] = "store"
                                /\ pc'[t] = "request"
                                /\ LAST_REQUEST_TIME' = frame[t].stamp]_vars

====
